---- MODULE Spec2Model ----
(***************************************************************************)
(* Stored-procedure lineage extraction and metadata-graph assembly of      *)
(* metadata-ingestion/src/datahub/ingestion/source/sql:                    *)
(*   sql_job_models.py, sql_stored_procedure_helper.py,                    *)
(*   stored_procedure_example.py, sql_generic.py.                          *)
(*                                                                         *)
(* Strings are sequences of characters (one-character TLA+ strings); a     *)
(* fixed literal such as "urn:li:dataJob:(" is a one-element sequence.     *)
(* Python's None for an Optional[str] is the sentinel None, which is no    *)
(* string over the alphabet.                                               *)
(***************************************************************************)
EXTENDS Integers, Sequences, FiniteSets, TLC

VARIABLES named, jobs, emitted, call, outcome, wu_in, workunits, flows,
          workers, usage

vars == <<named, jobs, emitted, call, outcome, wu_in, workunits, flows,
         workers, usage>>

(***************************************************************************)
(* Bounds of the model.                                                    *)
(***************************************************************************)
MaxNameLen == 3
MaxLineageLen == 2
MaxArgLen == 1
MaxStatements == 4
MaxProcs == 2
MaxUrnMutations == 2

(***************************************************************************)
(* Strings.                                                                *)
(***************************************************************************)
None == <<"None">>

Chars == {",", "-", "a"}

Truthy(s) == s # None /\ s # <<>>

\* None where a List[str] is expected, and `if lst:` on such an argument.
NoneList == <<None>>

ListTruthy(l) == l # NoneList /\ l # <<>>

SeqRange(s) == {s[i] : i \in DOMAIN s}

StringsUpTo(n) == UNION {[1..k -> Chars] : k \in 0..n}

\* Code points, for Python's ordering of str.
CharCode(c) ==
    CASE c = "," -> 44
      [] c = "-" -> 45
      [] c = "a" -> 97
      [] c = "b" -> 98
      [] OTHER -> 0

\* s <= t as Python compares str: by code point, a proper prefix first.
RECURSIVE str_le(_, _)
str_le(s, t) ==
    IF s = <<>> THEN TRUE
    ELSE IF t = <<>> THEN FALSE
    ELSE IF Head(s) = Head(t) THEN str_le(Tail(s), Tail(t))
    ELSE CharCode(Head(s)) < CharCode(Head(t))

\* str.replace(old, new): left to right, non-overlapping occurrences.
RECURSIVE str_replace(_, _, _)
str_replace(s, old, new) ==
    IF Len(s) < Len(old) THEN s
    ELSE IF SubSeq(s, 1, Len(old)) = old
         THEN new \o str_replace(SubSeq(s, Len(old) + 1, Len(s)), old, new)
         ELSE <<Head(s)>> \o str_replace(Tail(s), old, new)

\* sorted(list): a stable ascending sort.
RECURSIVE sorted_insert(_, _)
sorted_insert(x, s) ==
    IF s = <<>> THEN <<x>>
    ELSE IF str_le(Head(s), x) THEN <<Head(s)>> \o sorted_insert(x, Tail(s))
    ELSE <<x>> \o s

RECURSIVE sorted(_)
sorted(s) ==
    IF s = <<>> THEN <<>>
    ELSE sorted_insert(s[Len(s)], sorted(SubSeq(s, 1, Len(s) - 1)))

(***************************************************************************)
(* URN builders of datahub.emitter.mce_builder: fields joined by commas.   *)
(***************************************************************************)
make_data_flow_urn(orchestrator, flow_id, cluster, platform_instance) ==
    <<"urn:li:dataFlow:(">> \o orchestrator \o <<",">>
        \o (IF Truthy(platform_instance)
            THEN platform_instance \o <<".">> \o flow_id
            ELSE flow_id)
        \o <<",">> \o cluster \o <<")">>

make_data_job_urn(orchestrator, flow_id, job_id, cluster, platform_instance) ==
    <<"urn:li:dataJob:(">>
        \o make_data_flow_urn(orchestrator, flow_id, cluster, platform_instance)
        \o <<",">> \o job_id \o <<")">>

(***************************************************************************)
(* Entity model: sql_job_models.py.                                        *)
(***************************************************************************)
SQLJob(db, platform_instance, name, env, source) ==
    [cls |-> "SQLJob", db |-> db, platform_instance |-> platform_instance,
     name |-> name, env |-> env, source |-> source, type |-> "JOB"]

SQLProceduresContainer(db, platform_instance, name, env, source) ==
    [cls |-> "SQLProceduresContainer", db |-> db,
     platform_instance |-> platform_instance,
     name |-> name, env |-> env, source |-> source, type |-> "JOB"]

SQLJob_formatted_name(self) == str_replace(self.name, <<",">>, <<"-">>)

SQLProceduresContainer_formatted_name_raw(self) == self.name

SQLProceduresContainer_formatted_name(self) ==
    str_replace(self.name, <<",">>, <<"-">>)

StoredProcedure(db, schema, name, flow, source, code, language, created, last_altered, comment, owner, return_type) ==
    [cls |-> "StoredProcedure", db |-> db, schema |-> schema, name |-> name,
     flow |-> flow, type |-> "STORED_PROCEDURE", source |-> source,
     code |-> code, language |-> language, created |-> created,
     last_altered |-> last_altered, comment |-> comment, owner |-> owner,
     return_type |-> return_type]

StoredProcedure_formatted_name(self) == str_replace(self.name, <<",">>, <<"-">>)

StoredProcedure_full_name(self) ==
    self.db \o <<".">> \o self.schema \o <<".">>
        \o StoredProcedure_formatted_name(self)

JobStep(job_name, step_name, flow, source, command) ==
    [cls |-> "JobStep", job_name |-> job_name, step_name |-> step_name,
     flow |-> flow, type |-> "JOB_STEP", source |-> source,
     command |-> command]

JobStep_formatted_name(self) == str_replace(self.job_name, <<",">>, <<"-">>)

JobStep_full_name(self) == JobStep_formatted_name(self)

\* The attribute access e.formatted_name on a value of a Union type.
formatted_name(e) ==
    CASE e.cls = "SQLJob" -> SQLJob_formatted_name(e)
      [] e.cls = "SQLProceduresContainer" ->
             SQLProceduresContainer_formatted_name(e)
      [] e.cls = "StoredProcedure" -> StoredProcedure_formatted_name(e)
      [] e.cls = "JobStep" -> JobStep_formatted_name(e)

\* e.full_name of a StoredProcedure or a JobStep.
full_name(e) ==
    IF e.cls = "StoredProcedure" THEN StoredProcedure_full_name(e)
    ELSE JobStep_full_name(e)

\* orchestrator and cluster are the same on SQLJob and SQLProceduresContainer.
orchestrator(flow) == flow.source

cluster(flow) == flow.env

SQLDataJob(entity, source, description, external_url, status) ==
    [entity |-> entity, type |-> "dataJob", source |-> source,
     external_url |-> external_url, description |-> description,
     status |-> status, incoming |-> <<>>, outgoing |-> <<>>,
     input_jobs |-> <<>>, job_properties |-> <<>>]

\* The keyword arguments SQLDataJob.urn hands to make_data_job_urn.
SQLDataJob_urn_args(self) ==
    [orchestrator |-> orchestrator(self.entity.flow),
     flow_id |-> formatted_name(self.entity.flow),
     job_id |-> formatted_name(self.entity),
     cluster |-> cluster(self.entity.flow),
     platform_instance |-> self.entity.flow.platform_instance]

SQLDataJob_urn_full_name(self) ==
    make_data_job_urn(orchestrator(self.entity.flow),
                      formatted_name(self.entity.flow),
                      full_name(self.entity),
                      cluster(self.entity.flow),
                      self.entity.flow.platform_instance)

SQLDataJob_urn(self) ==
    LET a == SQLDataJob_urn_args(self)
    IN  make_data_job_urn(a.orchestrator, a.flow_id, a.job_id, a.cluster,
                          a.platform_instance)

SQLDataJob_add_property(self, name, value) ==
    [self EXCEPT !.job_properties =
        [k \in DOMAIN self.job_properties \cup {name} |->
            IF k = name THEN value ELSE self.job_properties[k]]]

SQLDataJob_as_datajob_input_output_aspect(self) ==
    [inputDatasets |-> sorted(self.incoming),
     outputDatasets |-> sorted(self.outgoing),
     inputDatajobs |-> sorted(self.input_jobs)]

SQLDataFlow(entity, source, external_url) ==
    [entity |-> entity, type |-> "dataFlow", source |-> source,
     external_url |-> external_url, flow_properties |-> <<>>]

\* The keyword arguments SQLDataFlow.urn hands to make_data_flow_urn.
SQLDataFlow_urn_args(self) ==
    [orchestrator |-> orchestrator(self.entity),
     flow_id |-> formatted_name(self.entity),
     cluster |-> cluster(self.entity),
     platform_instance |-> self.entity.platform_instance]

SQLDataFlow_urn(self) ==
    LET a == SQLDataFlow_urn_args(self)
    IN  make_data_flow_urn(a.orchestrator, a.flow_id, a.cluster,
                           a.platform_instance)

SQLDataFlow_add_property(self, name, value) ==
    [self EXCEPT !.flow_properties =
        [k \in DOMAIN self.flow_properties \cup {name} |->
            IF k = name THEN value ELSE self.flow_properties[k]]]

(***************************************************************************)
(* Aspects: the builders of datahub.emitter and the aspect properties of   *)
(* SQLDataJob and SQLDataFlow.                                             *)
(***************************************************************************)
UpperChar(c) ==
    CASE c = "a" -> "A"
      [] c = "mssql" -> "MSSQL"
      [] OTHER -> c

str_upper(s) == [i \in DOMAIN s |-> UpperChar(s[i])]

make_data_platform_urn(platform) == <<"urn:li:dataPlatform:">> \o platform

make_dataplatform_instance_urn(platform, instance) ==
    <<"urn:li:dataPlatformInstance:(">> \o make_data_platform_urn(platform)
        \o <<",">> \o instance \o <<")">>

DatabaseKey(platform, instance, env, database) ==
    [cls |-> "DatabaseKey", platform |-> platform, instance |-> instance,
     env |-> env, database |-> database]

SchemaKey(schema, platform, instance, env, database) ==
    [cls |-> "SchemaKey", platform |-> platform, instance |-> instance,
     env |-> env, database |-> database, schema |-> schema]

\* The container urn is a digest of the key: one urn per key.
ContainerKey_as_urn(key) == [urn |-> "urn:li:container", guid |-> key]

StoredProcedure_full_type(self) ==
    str_upper(self.source) \o <<"_">> \o <<self.type>>

JobStep_full_type(self) == str_upper(self.source) \o <<"_">> \o <<self.type>>

\* e.full_type of a StoredProcedure or a JobStep.
full_type(e) ==
    IF e.cls = "StoredProcedure" THEN StoredProcedure_full_type(e)
    ELSE JobStep_full_type(e)

SQLDataJob_valued_properties(self) ==
    IF DOMAIN self.job_properties # {}
    THEN [k \in {x \in DOMAIN self.job_properties :
                     self.job_properties[x] # None} |->
              self.job_properties[k]]
    ELSE self.job_properties

SQLDataJob_as_datajob_info_aspect(self) ==
    [name |-> full_name(self.entity), type |-> full_type(self.entity),
     description |-> self.description,
     customProperties |-> SQLDataJob_valued_properties(self),
     externalUrl |-> self.external_url, status |-> self.status]

\* The aspect, or NoPlatformInstance for None.
NoPlatformInstance == [platform |-> None, instance |-> None]

DataPlatformInstanceClass(platform, instance) ==
    [platform |-> platform, instance |-> instance]

\* Mutant: the aspect is built whenever the platform instance is not None.
SQLDataJob_as_maybe_platform_instance_aspect_not_none(self) ==
    IF self.entity.flow.platform_instance # None
    THEN DataPlatformInstanceClass(
             make_data_platform_urn(orchestrator(self.entity.flow)),
             make_dataplatform_instance_urn(orchestrator(self.entity.flow),
                                            self.entity.flow.platform_instance))
    ELSE NoPlatformInstance

SQLDataJob_as_maybe_platform_instance_aspect(self) ==
    IF Truthy(self.entity.flow.platform_instance)
    THEN DataPlatformInstanceClass(
             make_data_platform_urn(orchestrator(self.entity.flow)),
             make_dataplatform_instance_urn(orchestrator(self.entity.flow),
                                            self.entity.flow.platform_instance))
    ELSE NoPlatformInstance

\* Mutant: every job is placed directly in the database container.
SQLDataJob_as_container_aspect_database(self) ==
    [container |->
        ContainerKey_as_urn(
            DatabaseKey(orchestrator(self.entity.flow),
                        self.entity.flow.platform_instance,
                        self.entity.flow.env, self.entity.flow.db))]

SQLDataJob_as_container_aspect(self) ==
    [container |->
        ContainerKey_as_urn(
            IF self.entity.cls = "StoredProcedure"
            THEN SchemaKey(self.entity.schema, orchestrator(self.entity.flow),
                           self.entity.flow.platform_instance,
                           self.entity.flow.env, self.entity.flow.db)
            ELSE DatabaseKey(orchestrator(self.entity.flow),
                             self.entity.flow.platform_instance,
                             self.entity.flow.env, self.entity.flow.db))]

SQLDataFlow_as_dataflow_info_aspect(self) ==
    [name |-> formatted_name(self.entity),
     customProperties |-> self.flow_properties,
     externalUrl |-> self.external_url]

SQLDataFlow_as_maybe_platform_instance_aspect(self) ==
    IF Truthy(self.entity.platform_instance)
    THEN DataPlatformInstanceClass(
             make_data_platform_urn(orchestrator(self.entity)),
             make_dataplatform_instance_urn(orchestrator(self.entity),
                                            self.entity.platform_instance))
    ELSE NoPlatformInstance

SQLDataFlow_as_container_aspect(self) ==
    [container |->
        ContainerKey_as_urn(
            DatabaseKey(orchestrator(self.entity),
                        self.entity.platform_instance, self.entity.env,
                        self.entity.db))]

(***************************************************************************)
(* Helpers: sql_stored_procedure_helper.py.                                *)
(***************************************************************************)
create_procedure_container(db_name, platform_instance, container_name, env, source) ==
    SQLProceduresContainer(db_name, platform_instance, container_name, env,
                           source)

\* properties is a dict or None; `if properties:` skips None and {}.
RECURSIVE add_properties_job(_, _, _)
add_properties_job(data_job, keys, properties) ==
    IF keys = <<>> THEN data_job
    ELSE add_properties_job(
             SQLDataJob_add_property(data_job, Head(keys), properties[Head(keys)]),
             Tail(keys), properties)

create_data_job(stored_proc, source, description, keys, properties) ==
    add_properties_job(SQLDataJob(stored_proc, source, description, None, None),
                       keys, properties)

RECURSIVE add_properties_flow(_, _, _)
add_properties_flow(data_flow, keys, properties) ==
    IF keys = <<>> THEN data_flow
    ELSE add_properties_flow(
             SQLDataFlow_add_property(data_flow, Head(keys), properties[Head(keys)]),
             Tail(keys), properties)

create_data_flow(container, source, external_url, keys, properties) ==
    add_properties_flow(SQLDataFlow(container, source, external_url), keys,
                        properties)

\* add_lineage_to_data_job: each argument is a list or None.
add_lineage_to_data_job(data_job, input_datasets, output_datasets, input_jobs) ==
    [data_job EXCEPT
        !.incoming = IF ListTruthy(input_datasets) THEN @ \o input_datasets ELSE @,
        !.outgoing = IF ListTruthy(output_datasets) THEN @ \o output_datasets ELSE @,
        !.input_jobs = IF ListTruthy(input_jobs) THEN @ \o input_jobs ELSE @]

(***************************************************************************)
(* sql_generic.py: BaseStoredProcedure and its conversion.                 *)
(***************************************************************************)
BaseStoredProcedure(name, schema, language, created, last_altered, definition, comment, owner, return_type) ==
    [name |-> name, schema |-> schema, language |-> language,
     created |-> created, last_altered |-> last_altered,
     definition |-> definition, comment |-> comment, owner |-> owner,
     return_type |-> return_type]

to_stored_procedure(self, db, flow, source) ==
    StoredProcedure(db, self.schema, self.name, flow, source, self.definition,
                    self.language, self.created, self.last_altered,
                    self.comment, self.owner, self.return_type)

convert_base_stored_procedure(base_proc, db_name, container, source) ==
    to_stored_procedure(base_proc, db_name, container, source)

(***************************************************************************)
(* Inputs the specifications draw from.                                    *)
(***************************************************************************)
DbName == <<"db">>

Env == <<"PROD">>

Source == <<"mssql">>

PlatformInstances == {None, <<"p">>}

FlowNames == {<<",">>}

JobNames == {<<",">>, <<"-">>, <<"a">>}

Schemas == {<<"s">>, <<"t">>}

StepNames == {<<"x">>, <<"y">>}

\* Two runs' worth of the fields that are no part of an identifier.
ProcDetails ==
    {[code |-> None, created |-> None, comment |-> None, owner |-> None],
     [code |-> <<"sql">>, created |-> <<"t1">>, comment |-> <<"c">>,
      owner |-> <<"o">>]}

DatasetUrns == {<<"a", "b">>, <<"b">>}

ListsUpTo(n) == UNION {[1..k -> DatasetUrns] : k \in 1..n}

OptLists(n) == {NoneList} \cup ListsUpTo(n)

Flows ==
    {SQLJob(DbName, pi, n, Env, Source) : pi \in PlatformInstances, n \in FlowNames}
    \cup {create_procedure_container(DbName, pi, n, Env, Source) :
              pi \in PlatformInstances, n \in FlowNames}

JobFlows == {f \in Flows : f.cls = "SQLJob"}

Idle == [stage |-> "idle"]

(***************************************************************************)
(* SpecNames: one name, given to each of the four named record types.      *)
(***************************************************************************)
InitNames ==
    /\ named \in {[stage |-> "input", name |-> n] : n \in StringsUpTo(MaxNameLen)}
    /\ jobs = <<>>
    /\ emitted = Idle
    /\ call = Idle
    /\ outcome = Idle
    /\ wu_in = Idle
    /\ workunits = <<>>
    /\ flows = <<>>
    /\ workers = <<>>
    /\ usage = Idle

Made(obj) ==
    /\ named.stage = "input"
    /\ named' = [stage |-> "made", name |-> named.name, obj |-> obj,
                 formatted_name |-> formatted_name(obj)]
    /\ UNCHANGED <<jobs, emitted, call, outcome, wu_in, workunits,
                   flows, workers, usage>>

NewSQLJob ==
    \E pi \in PlatformInstances :
        Made(SQLJob(DbName, pi, named.name, Env, Source))

NewProceduresContainer ==
    \E pi \in PlatformInstances :
        Made(create_procedure_container(DbName, pi, named.name, Env, Source))

NewStoredProcedure ==
    \E flow \in Flows, schema \in Schemas :
        Made(StoredProcedure(DbName, schema, named.name, flow, Source, None,
                             None, None, None, None, None, None))

NewJobStep ==
    \E flow \in JobFlows, step \in StepNames :
        Made(JobStep(named.name, step, flow, Source, None))

NextNames ==
    \/ NewSQLJob
    \/ NewProceduresContainer
    \/ NewStoredProcedure
    \/ NewJobStep

SpecNames == InitNames /\ [][NextNames]_vars

(***************************************************************************)
(* Operations on the data jobs of a run.                                   *)
(***************************************************************************)
LineageTotal(job) == Len(job.incoming) + Len(job.outgoing) + Len(job.input_jobs)

RECURSIVE SumLineage(_)
SumLineage(js) ==
    IF js = <<>> THEN 0 ELSE LineageTotal(Head(js)) + SumLineage(Tail(js))

RECURSIVE SumProperties(_)
SumProperties(js) ==
    IF js = <<>> THEN 0
    ELSE Cardinality(DOMAIN Head(js).job_properties) + SumProperties(Tail(js))

AddLineageToDataJob(i, input_datasets, output_datasets, input_jobs) ==
    /\ i \in DOMAIN jobs
    /\ jobs' = [jobs EXCEPT ![i] =
                   add_lineage_to_data_job(@, input_datasets, output_datasets,
                                           input_jobs)]
    /\ UNCHANGED <<named, emitted, call, outcome, wu_in, workunits,
                   flows, workers, usage>>

\* The dict an aspect handed over holds as its customProperties, when that
\* dict is the property dict of a job or flow itself and not a copy.
NoShare == [kind |-> "none", index |-> 0]

SharesJob(i) == [kind |-> "job", index |-> i]

SharesFlow(i) == [kind |-> "flow", index |-> i]

\* valued_properties returns self.job_properties itself when it is empty,
\* a filtered copy otherwise.
SQLDataJob_valued_properties_shares(self, i) ==
    IF DOMAIN self.job_properties # {} THEN NoShare ELSE SharesJob(i)

\* add_property writes into the job's dict; an aspect handed over earlier
\* that holds this very dict shows the new entry too.
AddProperty(i, name, value) ==
    /\ i \in DOMAIN jobs
    /\ jobs' = [jobs EXCEPT ![i] = SQLDataJob_add_property(@, name, value)]
    /\ emitted' =
           IF emitted.stage = "emitted" /\ emitted.shares = SharesJob(i)
           THEN [emitted EXCEPT !.aspect.customProperties =
                    SQLDataJob_add_property(jobs[i], name, value).job_properties]
           ELSE emitted
    /\ UNCHANGED <<named, call, outcome, wu_in, workunits,
                   flows, workers, usage>>

(***************************************************************************)
(* SpecLineage: one data job, lineage added call by call, the input/output *)
(* aspect read at any time.                                                *)
(***************************************************************************)
LineageJob ==
    create_data_job(
        StoredProcedure(DbName, <<"s">>, <<"a">>,
                        create_procedure_container(DbName, None, <<"a">>, Env,
                                                   Source),
                        Source, None, None, None, None, None, None, None),
        Source, None, <<>>, <<>>)

InitLineage ==
    /\ jobs = <<LineageJob>>
    /\ emitted = Idle
    /\ named = Idle
    /\ call = Idle
    /\ outcome = Idle
    /\ wu_in = Idle
    /\ workunits = <<>>
    /\ flows = <<>>
    /\ workers = <<>>
    /\ usage = Idle

AddLineage ==
    \E ins \in OptLists(MaxArgLen), outs \in OptLists(MaxArgLen),
       js \in OptLists(MaxArgLen) :
        /\ Len(add_lineage_to_data_job(jobs[1], ins, outs, js).incoming)
               <= MaxLineageLen
        /\ Len(add_lineage_to_data_job(jobs[1], ins, outs, js).outgoing)
               <= MaxLineageLen
        /\ Len(add_lineage_to_data_job(jobs[1], ins, outs, js).input_jobs)
               <= MaxLineageLen
        /\ AddLineageToDataJob(1, ins, outs, js)

EmitInputOutput ==
    /\ emitted' = [stage |-> "emitted", job |-> jobs[1], shares |-> NoShare,
                   aspect |-> SQLDataJob_as_datajob_input_output_aspect(jobs[1])]
    /\ UNCHANGED <<named, jobs, call, outcome, wu_in, workunits,
                   flows, workers, usage>>

NextLineage ==
    \/ AddLineage
    \/ EmitInputOutput

SpecLineage == InitLineage /\ [][NextLineage]_vars

(***************************************************************************)
(* SpecUrn: two data jobs, created and populated independently.            *)
(***************************************************************************)
Pair == {1, 2}

InitUrn ==
    /\ jobs = <<>>
    /\ named = Idle
    /\ emitted = Idle
    /\ call = Idle
    /\ outcome = Idle
    /\ wu_in = Idle
    /\ workunits = <<>>
    /\ flows = <<>>
    /\ workers = <<>>
    /\ usage = Idle

CreateProcedureJob ==
    \E flow \in Flows, schema \in Schemas, name \in JobNames, d \in ProcDetails :
        /\ Len(jobs) < Cardinality(Pair)
        /\ jobs' = Append(jobs,
               create_data_job(
                   convert_base_stored_procedure(
                       BaseStoredProcedure(name, schema, None, d.created, None,
                                           d.code, d.comment, d.owner, None),
                       DbName, flow, Source),
                   Source, d.comment, <<>>, <<>>))
        /\ UNCHANGED <<named, emitted, call, outcome, wu_in, workunits,
                       flows, workers, usage>>

CreateStepJob ==
    \E flow \in JobFlows, name \in JobNames, step \in StepNames :
        /\ Len(jobs) < Cardinality(Pair)
        /\ jobs' = Append(jobs,
               SQLDataJob(JobStep(name, step, flow, Source, None), Source,
                          None, None, None))
        /\ UNCHANGED <<named, emitted, call, outcome, wu_in, workunits,
                       flows, workers, usage>>

UrnAddLineage ==
    \E i \in Pair, l \in {<<u>> : u \in {<<"b">>}} :
        /\ Len(jobs) = Cardinality(Pair)
        /\ SumLineage(jobs) + SumProperties(jobs) < MaxUrnMutations
        /\ \/ AddLineageToDataJob(i, l, NoneList, NoneList)
           \/ AddLineageToDataJob(i, NoneList, l, NoneList)
           \/ AddLineageToDataJob(i, NoneList, NoneList, l)

UrnAddProperty ==
    \E i \in Pair, v \in {None, <<"o">>} :
        /\ Len(jobs) = Cardinality(Pair)
        /\ SumLineage(jobs) + SumProperties(jobs) < MaxUrnMutations
        /\ AddProperty(i, "owner", v)

NextUrn ==
    \/ CreateProcedureJob
    \/ CreateStepJob
    \/ UrnAddLineage
    \/ UrnAddProperty

SpecUrn == InitUrn /\ [][NextUrn]_vars

(***************************************************************************)
(* Collaborators of parse_procedure_code (datahub.sql_parsing): the        *)
(* statement splitter, the per-statement reference resolver and the        *)
(* lineage aggregator.                                                     *)
(***************************************************************************)
\* A procedure body is a sequence of statement texts and ";" terminators.
RECURSIVE split_statements(_)
split_statements(code) ==
    IF code = <<>> THEN <<>>
    ELSE IF Head(code) = ";" THEN split_statements(Tail(code))
    ELSE <<Head(code)>> \o split_statements(Tail(code))

\* A table reference as written in a statement: name only.
Ref(name) == [db |-> None, schema |-> None, name |-> name]

\* The resolver's facts about one statement: whether it can be parsed, and
\* the tables it reads and writes.
StatementFacts(query) ==
    CASE query = "SELECT * FROM t1" ->
             [parses |-> TRUE, reads |-> {Ref("t1")}, writes |-> {}]
      [] query = "INSERT INTO t1 SELECT * FROM t2" ->
             [parses |-> TRUE, reads |-> {Ref("t2")}, writes |-> {Ref("t1")}]
      [] query = "SELECT * INTO tmp FROM t1" ->
             [parses |-> TRUE, reads |-> {Ref("t1")}, writes |-> {Ref("tmp")}]
      [] query = "INSERT INTO t2 SELECT * FROM tmp" ->
             [parses |-> TRUE, reads |-> {Ref("tmp")}, writes |-> {Ref("t2")}]
      [] query = "USE db2" ->
             [parses |-> TRUE, reads |-> {}, writes |-> {}]
      [] OTHER -> [parses |-> FALSE, reads |-> {}, writes |-> {}]

Statements ==
    {"SELECT * FROM t1", "INSERT INTO t1 SELECT * FROM t2",
     "SELECT * INTO tmp FROM t1", "INSERT INTO t2 SELECT * FROM tmp",
     "SELEC garbage"}

\* A reference resolved against the default database and schema.
Qualify(ref, default_db, default_schema) ==
    [db |-> IF ref.db = None THEN default_db ELSE ref.db,
     schema |-> IF ref.schema = None THEN default_schema ELSE ref.schema,
     name |-> ref.name]

ObservedQuery(default_db, default_schema, query) ==
    [default_db |-> default_db, default_schema |-> default_schema,
     query |-> query]

\* is_temp_table is the set of table names the predicate accepts.
SqlParsingAggregator(platform, env, is_temp_table) ==
    [platform |-> platform, env |-> env, is_temp_table |-> is_temp_table,
     num_observed_queries_failed |-> 0, observed |-> <<>>,
     reads |-> {}, writes |-> {}]

add_observed_query(aggregator, observed) ==
    LET facts == StatementFacts(observed.query)
        seen == [aggregator EXCEPT !.observed = Append(@, observed)]
    IN  IF ~facts.parses
        THEN [seen EXCEPT !.num_observed_queries_failed = @ + 1]
        ELSE [seen EXCEPT
                 !.reads = @ \cup {Qualify(r, observed.default_db,
                                           observed.default_schema) :
                                       r \in facts.reads},
                 !.writes = @ \cup {Qualify(w, observed.default_db,
                                            observed.default_schema) :
                                        w \in facts.writes}]

\* The lineage the aggregator generates: temporary tables excluded.
gen_metadata(aggregator) ==
    [upstreams |-> {r \in aggregator.reads :
                        r.name \notin aggregator.is_temp_table},
     downstreams |-> {w \in aggregator.writes :
                          w.name \notin aggregator.is_temp_table}]

NoAspect == [aspect |-> "None"]

DataJobInputOutputClass(inputDatasets, outputDatasets) ==
    [aspect |-> "dataJobInputOutput", inputDatasets |-> inputDatasets,
     outputDatasets |-> outputDatasets]

to_datajob_input_output(mcps) ==
    IF mcps.upstreams = {} /\ mcps.downstreams = {} THEN NoAspect
    ELSE DataJobInputOutputClass(mcps.upstreams, mcps.downstreams)

(***************************************************************************)
(* parse_procedure_code and generate_procedure_lineage.                    *)
(***************************************************************************)
\* The loop of parse_procedure_code over the statements.
RECURSIVE observe_queries(_, _, _, _)
observe_queries(aggregator, queries, default_db, default_schema) ==
    IF queries = <<>> THEN aggregator
    ELSE observe_queries(
             add_observed_query(aggregator,
                 ObservedQuery(default_db, default_schema, Head(queries))),
             Tail(queries), default_db, default_schema)

\* The outcome of a call: what the caller gets (a returned value or a raised
\* error) and the state in which the call left its own aggregator.
Returned(value, aggregator) ==
    [kind |-> "return", value |-> value, aggregator |-> aggregator]

Raised(error, aggregator) ==
    [kind |-> "raise", error |-> error, aggregator |-> aggregator]

FailedToParse(n) == <<"Failed to parse ", n, " queries.">>

finish_parse(aggregator, raise_) ==
    IF aggregator.num_observed_queries_failed # 0 /\ raise_
    THEN Raised(FailedToParse(aggregator.num_observed_queries_failed),
                aggregator)
    ELSE Returned(to_datajob_input_output(gen_metadata(aggregator)),
                  aggregator)

\* Mutant: the failure check sits inside the loop.
RECURSIVE observe_until_raise(_, _, _, _, _)
observe_until_raise(aggregator, queries, default_db, default_schema, raise_) ==
    IF queries = <<>> \/ (aggregator.num_observed_queries_failed # 0 /\ raise_)
    THEN aggregator
    ELSE observe_until_raise(
             add_observed_query(aggregator,
                 ObservedQuery(default_db, default_schema, Head(queries))),
             Tail(queries), default_db, default_schema, raise_)

parse_procedure_code_raise_in_loop(schema_resolver, default_db, default_schema, code, is_temp_table, raise_) ==
    finish_parse(
        observe_until_raise(
            SqlParsingAggregator(schema_resolver.platform, schema_resolver.env,
                                 is_temp_table),
            split_statements(code), default_db, default_schema, raise_),
        raise_)

\* Mutant: the loop ends at the first statement that fails.
RECURSIVE observe_until_failure(_, _, _, _)
observe_until_failure(aggregator, queries, default_db, default_schema) ==
    IF queries = <<>> \/ aggregator.num_observed_queries_failed # 0
    THEN aggregator
    ELSE observe_until_failure(
             add_observed_query(aggregator,
                 ObservedQuery(default_db, default_schema, Head(queries))),
             Tail(queries), default_db, default_schema)

parse_procedure_code_break_on_failure(schema_resolver, default_db, default_schema, code, is_temp_table, raise_) ==
    finish_parse(
        observe_until_failure(
            SqlParsingAggregator(schema_resolver.platform, schema_resolver.env,
                                 is_temp_table),
            split_statements(code), default_db, default_schema),
        raise_)

\* Mutant: is_temp_table is not handed to the aggregator.
parse_procedure_code_no_temp_predicate(schema_resolver, default_db, default_schema, code, is_temp_table, raise_) ==
    finish_parse(
        observe_queries(
            SqlParsingAggregator(schema_resolver.platform, schema_resolver.env,
                                 {}),
            split_statements(code), default_db, default_schema),
        raise_)

\* Mutant: a fresh aggregator for every statement.
RECURSIVE observe_each_alone(_, _, _, _)
observe_each_alone(fresh, queries, default_db, default_schema) ==
    IF queries = <<>> THEN fresh
    ELSE LET a == add_observed_query(fresh,
                      ObservedQuery(default_db, default_schema, Head(queries)))
         IN  IF Tail(queries) = <<>> THEN a
             ELSE observe_each_alone(fresh, Tail(queries), default_db,
                                     default_schema)

parse_procedure_code_aggregator_per_statement(schema_resolver, default_db, default_schema, code, is_temp_table, raise_) ==
    finish_parse(
        observe_each_alone(
            SqlParsingAggregator(schema_resolver.platform, schema_resolver.env,
                                 is_temp_table),
            split_statements(code), default_db, default_schema),
        raise_)

parse_procedure_code(schema_resolver, default_db, default_schema, code, is_temp_table, raise_) ==
    LET aggregator ==
            observe_queries(
                SqlParsingAggregator(schema_resolver.platform,
                                     schema_resolver.env, is_temp_table),
                split_statements(code), default_db, default_schema)
    IN  IF aggregator.num_observed_queries_failed # 0 /\ raise_
        THEN Raised(FailedToParse(aggregator.num_observed_queries_failed),
                    aggregator)
        ELSE Returned(to_datajob_input_output(gen_metadata(aggregator)),
                      aggregator)

MetadataChangeProposalWrapper(entityType, entityUrn, aspectName, aspect) ==
    [entityType |-> entityType, entityUrn |-> entityUrn,
     aspectName |-> aspectName, aspect |-> aspect]

\* parse_procedure_code was not called.
NotCalled == [kind |-> "not called"]

\* Mutant: the body is parsed whenever the code is not None.
generate_procedure_lineage_code_not_none(schema_resolver, procedure, procedure_job_urn, is_temp_table, raise_) ==
    IF procedure.code # None
    THEN LET parsed == parse_procedure_code(schema_resolver, procedure.db,
                                            procedure.schema, procedure.code,
                                            is_temp_table, raise_)
         IN  IF parsed.kind = "raise"
             THEN [kind |-> "raise", error |-> parsed.error, mcps |-> <<>>,
                   parse |-> parsed]
             ELSE IF parsed.value # NoAspect
             THEN [kind |-> "end", parse |-> parsed,
                   mcps |-> <<MetadataChangeProposalWrapper(
                                  "dataJob", procedure_job_urn,
                                  "dataJobInputOutput", parsed.value)>>]
             ELSE [kind |-> "end", mcps |-> <<>>, parse |-> parsed]
    ELSE [kind |-> "end", mcps |-> <<>>, parse |-> NotCalled]

\* The records generate_procedure_lineage yields before it ends or raises,
\* and the outcome of its call of parse_procedure_code.
generate_procedure_lineage(schema_resolver, procedure, procedure_job_urn, is_temp_table, raise_) ==
    IF Truthy(procedure.code)
    THEN LET parsed == parse_procedure_code(schema_resolver, procedure.db,
                                            procedure.schema, procedure.code,
                                            is_temp_table, raise_)
         IN  IF parsed.kind = "raise"
             THEN [kind |-> "raise", error |-> parsed.error, mcps |-> <<>>,
                   parse |-> parsed]
             ELSE IF parsed.value # NoAspect
             THEN [kind |-> "end", parse |-> parsed,
                   mcps |-> <<MetadataChangeProposalWrapper(
                                  "dataJob", procedure_job_urn,
                                  "dataJobInputOutput", parsed.value)>>]
             ELSE [kind |-> "end", mcps |-> <<>>, parse |-> parsed]
    ELSE [kind |-> "end", mcps |-> <<>>, parse |-> NotCalled]

(***************************************************************************)
(* SpecParse: one stored procedure, its body parsed once.                  *)
(***************************************************************************)
StatementLists == UNION {[1..k -> Statements] : k \in 0..MaxStatements}

\* The body text of a procedure made of the given statements.
RECURSIVE BodyOf(_)
BodyOf(statements) ==
    IF statements = <<>> THEN <<>>
    ELSE <<Head(statements), ";">> \o BodyOf(Tail(statements))

SchemaResolver == [platform |-> Source, env |-> Env]

ParsedProcedure(code) ==
    StoredProcedure(DbName, <<"s">>, <<"a">>,
                    create_procedure_container(DbName, None, <<"a">>, Env,
                                               Source),
                    Source, code, None, None, None, None, None, None)

TempPredicates == {{}, {"tmp"}}

InitParse ==
    /\ call \in
         {[stage |-> "input", statements |-> ss,
           procedure |-> ParsedProcedure(BodyOf(ss)),
           is_temp_table |-> t, raise_ |-> r] :
              ss \in StatementLists, t \in TempPredicates, r \in BOOLEAN}
         \cup {[stage |-> "input", statements |-> <<>>,
                procedure |-> ParsedProcedure(None),
                is_temp_table |-> t, raise_ |-> r] :
                   t \in TempPredicates, r \in BOOLEAN}
    /\ outcome = Idle
    /\ named = Idle
    /\ jobs = <<>>
    /\ emitted = Idle
    /\ wu_in = Idle
    /\ workunits = <<>>
    /\ flows = <<>>
    /\ workers = <<>>
    /\ usage = Idle

ParseProcedureCode ==
    /\ call.stage = "input"
    /\ call.procedure.code # None
    /\ outcome' = [stage |-> "done", op |-> "parse_procedure_code",
                   result |-> parse_procedure_code(
                                  SchemaResolver, call.procedure.db,
                                  call.procedure.schema, call.procedure.code,
                                  call.is_temp_table, call.raise_)]
    /\ call' = [call EXCEPT !.stage = "called"]
    /\ UNCHANGED <<named, jobs, emitted, wu_in, workunits,
                   flows, workers, usage>>

GenerateProcedureLineage ==
    /\ call.stage = "input"
    /\ outcome' = [stage |-> "done", op |-> "generate_procedure_lineage",
                   result |-> generate_procedure_lineage(
                                  SchemaResolver, call.procedure,
                                  SQLDataJob_urn(SQLDataJob(call.procedure,
                                      Source, None, None, None)),
                                  call.is_temp_table, call.raise_)]
    /\ call' = [call EXCEPT !.stage = "called"]
    /\ UNCHANGED <<named, jobs, emitted, wu_in, workunits,
                   flows, workers, usage>>

NextParse ==
    \/ ParseProcedureCode
    \/ GenerateProcedureLineage

SpecParse == InitParse /\ [][NextParse]_vars

(***************************************************************************)
(* stored_procedure_example.py: generate_stored_procedure_workunits.       *)
(***************************************************************************)
\* MetadataWorkUnit(id=f"{urn}-{aspectName}", mcp=MetadataChangeProposalWrapper(...)).
workunit(entityType, entityUrn, aspectName, aspect) ==
    [id |-> entityUrn \o <<"-", aspectName>>,
     mcp |-> MetadataChangeProposalWrapper(entityType, entityUrn, aspectName,
                                           aspect)]

\* x or "".
or_empty(x) == IF Truthy(x) THEN x ELSE <<>>

\* The data job the loop body builds for one procedure.
procedure_data_job(base_proc, db_name, container, source_platform) ==
    create_data_job(
        convert_base_stored_procedure(base_proc, db_name, container,
                                      source_platform),
        source_platform, base_proc.comment,
        <<"language", "return_type", "owner">>,
        [language |-> or_empty(base_proc.language),
         return_type |-> or_empty(base_proc.return_type),
         owner |-> or_empty(base_proc.owner)])

\* The work units the code before the loop appends.
flow_workunits(data_flow) ==
    <<workunit("dataFlow", SQLDataFlow_urn(data_flow), "dataFlowInfo",
               SQLDataFlow_as_dataflow_info_aspect(data_flow))>>
    \o (IF SQLDataFlow_as_maybe_platform_instance_aspect(data_flow)
              # NoPlatformInstance
        THEN <<workunit("dataFlow", SQLDataFlow_urn(data_flow),
                        "dataPlatformInstance",
                        SQLDataFlow_as_maybe_platform_instance_aspect(data_flow))>>
        ELSE <<>>)
    \o <<workunit("dataFlow", SQLDataFlow_urn(data_flow), "container",
                  SQLDataFlow_as_container_aspect(data_flow))>>

job_info_workunits(data_job) ==
    <<workunit("dataJob", SQLDataJob_urn(data_job), "dataJobInfo",
               SQLDataJob_as_datajob_info_aspect(data_job))>>
    \o (IF SQLDataJob_as_maybe_platform_instance_aspect(data_job)
              # NoPlatformInstance
        THEN <<workunit("dataJob", SQLDataJob_urn(data_job),
                        "dataPlatformInstance",
                        SQLDataJob_as_maybe_platform_instance_aspect(data_job))>>
        ELSE <<>>)

job_container_workunit(data_job) ==
    <<workunit("dataJob", SQLDataJob_urn(data_job), "container",
               SQLDataJob_as_container_aspect(data_job))>>

job_input_output_workunit(data_job) ==
    <<workunit("dataJob", SQLDataJob_urn(data_job), "dataJobInputOutput",
               SQLDataJob_as_datajob_input_output_aspect(data_job))>>

\* Mutant: the input/output aspect is appended before the container aspect.
job_workunits_lineage_before_container(data_job) ==
    job_info_workunits(data_job) \o job_input_output_workunit(data_job)
        \o job_container_workunit(data_job)

\* The work units one pass of the loop appends.
job_workunits(data_job) ==
    job_info_workunits(data_job) \o job_container_workunit(data_job)
        \o job_input_output_workunit(data_job)

RECURSIVE procedures_workunits(_, _, _, _)
procedures_workunits(procedures, db_name, container, source_platform) ==
    IF procedures = <<>> THEN <<>>
    ELSE job_workunits(procedure_data_job(Head(procedures), db_name, container,
                                          source_platform))
         \o procedures_workunits(Tail(procedures), db_name, container,
                                 source_platform)

generate_stored_procedure_workunits(procedures, db_name, platform_instance, env, source_platform, container_name) ==
    LET container == create_procedure_container(db_name, platform_instance,
                                                container_name, env,
                                                source_platform)
        data_flow == create_data_flow(container, source_platform, None,
                                      <<"database">>, [database |-> db_name])
    IN  flow_workunits(data_flow)
        \o procedures_workunits(procedures, db_name, container, source_platform)

(***************************************************************************)
(* SpecWorkunits: one call of generate_stored_procedure_workunits.         *)
(***************************************************************************)
\* What a source may know beyond a procedure's name and schema.
BaseDetails ==
    {[language |-> None, definition |-> None, comment |-> None,
      owner |-> None, return_type |-> None],
     [language |-> <<"SQL">>, definition |-> <<"SELECT * FROM t1", ";">>,
      comment |-> <<"c">>, owner |-> <<"o">>, return_type |-> <<"void">>]}

BaseProcedures ==
    {BaseStoredProcedure(n, sch, d.language, None, None, d.definition,
                         d.comment, d.owner, d.return_type) :
         n \in {<<"a">>, <<",">>}, sch \in Schemas, d \in BaseDetails}

ProcedureLists == UNION {[1..k -> BaseProcedures] : k \in 0..MaxProcs}

ContainerNames == {<<"a">>, <<"a", ",", "a">>}

InitWorkunits ==
    /\ wu_in \in
         {[stage |-> "input", procedures |-> ps, db_name |-> DbName,
           platform_instance |-> pi, env |-> Env, source_platform |-> Source,
           container_name |-> c] :
              ps \in ProcedureLists, pi \in {None, <<>>, <<"p">>},
              c \in ContainerNames}
    /\ workunits = <<>>
    /\ flows = <<>>
    /\ workers = <<>>
    /\ usage = Idle
    /\ named = Idle
    /\ jobs = <<>>
    /\ emitted = Idle
    /\ call = Idle
    /\ outcome = Idle

GenerateStoredProcedureWorkunits ==
    /\ wu_in.stage = "input"
    /\ workunits' = generate_stored_procedure_workunits(
                        wu_in.procedures, wu_in.db_name,
                        wu_in.platform_instance, wu_in.env,
                        wu_in.source_platform, wu_in.container_name)
    /\ wu_in' = [wu_in EXCEPT !.stage = "generated"]
    /\ UNCHANGED <<named, jobs, emitted, call, outcome,
                   flows, workers, usage>>

NextWorkunits == GenerateStoredProcedureWorkunits

SpecWorkunits == InitWorkunits /\ [][NextWorkunits]_vars

(***************************************************************************)
(* SpecRerun: generate_stored_procedure_workunits called again and again   *)
(* on the same arguments, each call followed through its body: the list    *)
(* and the flow are set up, one procedure is handled per pass of the loop, *)
(* the list is returned.  What an earlier call left behind (its list, its  *)
(* flow, its jobs) is still there when the next call starts.               *)
(***************************************************************************)
Runs == 2

\* Mutant: the list is kept from call to call (a module-level list or a
\* mutable default argument) instead of being bound afresh.
start_workunits_kept(left_behind) == left_behind

\* workunits = []: the call binds a new empty list, whatever an earlier call
\* left behind.
start_workunits(left_behind) == <<>>

InitRerun ==
    /\ wu_in \in
         {[stage |-> "input", procedures |-> ps, db_name |-> DbName,
           platform_instance |-> pi, env |-> Env, source_platform |-> Source,
           container_name |-> c, run |-> 0, next |-> 1,
           returned |-> <<>>, previous |-> <<>>] :
              ps \in ProcedureLists, pi \in {None, <<>>, <<"p">>},
              c \in ContainerNames}
    /\ workunits = <<>>
    /\ flows = <<>>
    /\ workers = <<>>
    /\ usage = Idle
    /\ named = Idle
    /\ jobs = <<>>
    /\ emitted = Idle
    /\ call = Idle
    /\ outcome = Idle

\* The container of the running call.
RerunContainer ==
    create_procedure_container(wu_in.db_name, wu_in.platform_instance,
                               wu_in.container_name, wu_in.env,
                               wu_in.source_platform)

\* The call starts: new list, container and data flow; the flow's records
\* are appended.
RerunStart ==
    /\ wu_in.stage \in {"input", "returned"}
    /\ wu_in.run < Runs
    /\ flows' = <<create_data_flow(RerunContainer, wu_in.source_platform,
                                   None, <<"database">>,
                                   [database |-> wu_in.db_name])>>
    /\ jobs' = <<>>
    /\ workunits' = start_workunits(workunits) \o flow_workunits(flows'[1])
    /\ wu_in' = [wu_in EXCEPT !.stage = "loop", !.next = 1]
    /\ UNCHANGED <<named, emitted, call, outcome, workers, usage>>

\* One pass of the loop: the next procedure is converted, its data job is
\* created and its records are appended.
RerunProcedure ==
    /\ wu_in.stage = "loop"
    /\ wu_in.next <= Len(wu_in.procedures)
    /\ jobs' = Append(jobs,
                      procedure_data_job(wu_in.procedures[wu_in.next],
                                         wu_in.db_name, flows[1].entity,
                                         wu_in.source_platform))
    /\ workunits' = workunits \o job_workunits(jobs'[Len(jobs')])
    /\ wu_in' = [wu_in EXCEPT !.next = @ + 1]
    /\ UNCHANGED <<named, emitted, call, outcome, flows, workers, usage>>

\* return workunits; the caller keeps the list of the call before as well.
RerunReturn ==
    /\ wu_in.stage = "loop"
    /\ wu_in.next > Len(wu_in.procedures)
    /\ wu_in' = [wu_in EXCEPT !.stage = "returned", !.run = @ + 1,
                              !.returned = workunits,
                              !.previous = wu_in.returned]
    /\ UNCHANGED <<named, jobs, emitted, call, outcome, workunits, flows,
                   workers, usage>>

NextRerun ==
    \/ RerunStart
    \/ RerunProcedure
    \/ RerunReturn

SpecRerun == InitRerun /\ [][NextRerun]_vars

(***************************************************************************)
(* SpecWorkers: parse_procedure_code called for two procedures, the calls  *)
(* interleaved statement by statement; both are given one schema resolver. *)
(***************************************************************************)
MaxWorkerStatements == 2

Workers == {1, 2}

WorkerStatements ==
    {"USE db2", "INSERT INTO t1 SELECT * FROM t2", "SELEC garbage"}

WorkerStatementLists ==
    UNION {[1..k -> WorkerStatements] : k \in 0..MaxWorkerStatements}

\* Procedure A lives in schema "s", procedure B in schema "t".
WorkerProcedure(w, statements) ==
    StoredProcedure(DbName, IF w = 1 THEN <<"s">> ELSE <<"t">>, <<"a">>,
                    create_procedure_container(DbName, None, <<"a">>, Env,
                                               Source),
                    Source, BodyOf(statements), None, None, None, None, None,
                    None)

\* The call has bound its arguments; nothing of its body has run.
NewCall(procedure, raise_) ==
    [pc |-> "called", procedure |-> procedure,
     schema_resolver |-> SchemaResolver, default_db |-> procedure.db,
     default_schema |-> procedure.schema,
     code |-> procedure.code, is_temp_table |-> {}, raise_ |-> raise_,
     aggregator |-> Idle, queries |-> <<>>, result |-> Idle]

\* aggregator = SqlParsingAggregator(...); the loop is about to start.
start_parse(ws, w) ==
    [ws EXCEPT ![w].pc = "loop",
               ![w].aggregator = SqlParsingAggregator(
                                     ws[w].schema_resolver.platform,
                                     ws[w].schema_resolver.env,
                                     ws[w].is_temp_table),
               ![w].queries = split_statements(ws[w].code)]

\* Mutant: one aggregator serves every call, so an observed statement is
\* counted in the aggregator of each call that is in its loop.
observe_next_shared(ws, w) ==
    [v \in DOMAIN ws |->
        IF v = w
        THEN [ws[v] EXCEPT
                 !.aggregator = add_observed_query(@,
                     ObservedQuery(ws[w].default_db, ws[w].default_schema,
                                   Head(ws[w].queries))),
                 !.queries = Tail(@)]
        ELSE IF ws[v].pc = "loop"
        THEN [ws[v] EXCEPT
                 !.aggregator = add_observed_query(@,
                     ObservedQuery(ws[w].default_db, ws[w].default_schema,
                                   Head(ws[w].queries)))]
        ELSE ws[v]]

\* Mutant: a USE statement replaces the default database of the call.
observe_next_use_aware(ws, w) ==
    [ws EXCEPT
        ![w].aggregator = add_observed_query(@,
            ObservedQuery(ws[w].default_db, ws[w].default_schema,
                          Head(ws[w].queries))),
        ![w].default_db = IF Head(ws[w].queries) = "USE db2"
                          THEN <<"db2">> ELSE @,
        ![w].queries = Tail(@)]

\* One pass of the loop: the next statement goes to the call's aggregator.
observe_next(ws, w) ==
    [ws EXCEPT
        ![w].aggregator = add_observed_query(@,
            ObservedQuery(ws[w].default_db, ws[w].default_schema,
                          Head(ws[w].queries))),
        ![w].queries = Tail(@)]

\* After the loop: raise in strict mode if a statement failed, else return.
finish_call(ws, w) ==
    [ws EXCEPT
        ![w].pc = "done",
        ![w].result =
            IF ws[w].aggregator.num_observed_queries_failed # 0 /\ ws[w].raise_
            THEN Raised(FailedToParse(
                            ws[w].aggregator.num_observed_queries_failed),
                        ws[w].aggregator)
            ELSE Returned(to_datajob_input_output(
                              gen_metadata(ws[w].aggregator)),
                          ws[w].aggregator)]

InitWorkers ==
    /\ workers \in
         {<<NewCall(WorkerProcedure(1, a), ra), NewCall(WorkerProcedure(2, b), rb)>> :
              a \in WorkerStatementLists, b \in WorkerStatementLists,
              ra \in BOOLEAN, rb \in BOOLEAN}
    /\ named = Idle
    /\ jobs = <<>>
    /\ emitted = Idle
    /\ call = Idle
    /\ outcome = Idle
    /\ wu_in = Idle
    /\ workunits = <<>>
    /\ flows = <<>>
    /\ usage = Idle

WorkerStep(next) ==
    /\ workers' = next
    /\ UNCHANGED <<named, jobs, emitted, call, outcome, wu_in, workunits,
                   flows, usage>>

StartParse ==
    \E w \in Workers :
        /\ workers[w].pc = "called"
        /\ WorkerStep(start_parse(workers, w))

ObserveNext ==
    \E w \in Workers :
        /\ workers[w].pc = "loop"
        /\ workers[w].queries # <<>>
        /\ WorkerStep(observe_next(workers, w))

FinishCall ==
    \E w \in Workers :
        /\ workers[w].pc = "loop"
        /\ workers[w].queries = <<>>
        /\ WorkerStep(finish_call(workers, w))

NextWorkers ==
    \/ StartParse
    \/ ObserveNext
    \/ FinishCall

SpecWorkers == InitWorkers /\ [][NextWorkers]_vars

(***************************************************************************)
(* stored_procedure_example.py: add_lineage_to_stored_procedure and        *)
(* example_usage.                                                          *)
(***************************************************************************)
ProcedureDependency(db, schema, name, type, env, server, source) ==
    [db |-> db, schema |-> schema, name |-> name, type |-> type, env |-> env,
     server |-> server, source |-> source]

create_procedure_dependency(db, schema, name, dependency_type, env, source) ==
    ProcedureDependency(db, schema, name, dependency_type, env, None, source)

\* platform_instance is None at every call of the example.
make_dataset_urn_with_platform_instance(platform, name, platform_instance, env) ==
    <<"urn:li:dataset:(">> \o make_data_platform_urn(platform) \o <<",">>
        \o (IF Truthy(platform_instance) THEN platform_instance \o <<".">>
            ELSE <<>>)
        \o name \o <<",">> \o env \o <<")">>

\* None for an optional list of {db, schema, name} tables.
NoneTables == <<[db |-> None, schema |-> None, name |-> None]>>

\* `if input_tables:` is false for None and for the empty list.
TablesTruthy(tables) == tables # NoneTables /\ tables # <<>>

\* The dataset urns of a list of {db, schema, name} tables.
table_dataset_urns(tables, env, source_platform) ==
    [i \in DOMAIN tables |->
        LET dep == create_procedure_dependency(
                       tables[i].db, tables[i].schema, tables[i].name,
                       "TABLE", env, source_platform)
        IN  make_dataset_urn_with_platform_instance(
                source_platform,
                dep.db \o <<".">> \o dep.schema \o <<".">> \o dep.name,
                None, env)]

add_lineage_to_stored_procedure(data_job, input_tables, output_tables, env, source_platform) ==
    LET with_inputs ==
            IF TablesTruthy(input_tables)
            THEN add_lineage_to_data_job(
                     data_job,
                     table_dataset_urns(input_tables, env, source_platform),
                     NoneList, NoneList)
            ELSE data_job
    IN  IF TablesTruthy(output_tables)
        THEN add_lineage_to_data_job(
                 with_inputs, NoneList,
                 table_dataset_urns(output_tables, env, source_platform),
                 NoneList)
        ELSE with_inputs

(***************************************************************************)
(* SpecUsage: example_usage, step by step: the work units are generated,   *)
(* then a data job is built for the first procedure and given lineage.     *)
(***************************************************************************)
MaxTables == 2

Tables ==
    {[db |-> DbName, schema |-> <<"s">>, name |-> n] : n \in {<<"a">>, <<"b">>}}

TableLists == {NoneTables} \cup UNION {[1..k -> Tables] : k \in 0..MaxTables}

StoredProcedures == <<"stored_procedures">>

InitUsage ==
    /\ usage \in
         {[pc |-> "start", sample_procedures |-> ps, input_tables |-> ins,
           output_tables |-> outs] :
              ps \in {l \in ProcedureLists : Len(l) >= 1},
              ins \in TableLists, outs \in TableLists}
    /\ workunits = <<>>
    /\ jobs = <<>>
    /\ named = Idle
    /\ emitted = Idle
    /\ call = Idle
    /\ outcome = Idle
    /\ wu_in = Idle
    /\ flows = <<>>
    /\ workers = <<>>

\* workunits = generate_stored_procedure_workunits(...): the records of the
\* flow and of every procedure are handed over.
UsageGenerateWorkunits ==
    /\ usage.pc = "start"
    /\ workunits' = generate_stored_procedure_workunits(
                        usage.sample_procedures, DbName, None, Env, Source,
                        StoredProcedures)
    /\ usage' = [usage EXCEPT !.pc = "generated"]
    /\ UNCHANGED <<named, jobs, emitted, call, outcome, wu_in, flows, workers>>

\* container, stored_proc and data_job are built for sample_procedures[0].
UsageCreateDataJob ==
    /\ usage.pc = "generated"
    /\ jobs' = <<create_data_job(
                     convert_base_stored_procedure(
                         usage.sample_procedures[1], DbName,
                         create_procedure_container(DbName, None,
                                                    StoredProcedures, Env,
                                                    Source),
                         Source),
                     Source, usage.sample_procedures[1].comment, <<>>, <<>>)>>
    /\ usage' = [usage EXCEPT !.pc = "created"]
    /\ UNCHANGED <<named, emitted, call, outcome, wu_in, workunits, flows,
                   workers>>

UsageAddLineage ==
    /\ usage.pc = "created"
    /\ jobs' = <<add_lineage_to_stored_procedure(
                     jobs[1], usage.input_tables, usage.output_tables, Env,
                     Source)>>
    /\ usage' = [usage EXCEPT !.pc = "end"]
    /\ UNCHANGED <<named, emitted, call, outcome, wu_in, workunits, flows,
                   workers>>

NextUsage ==
    \/ UsageGenerateWorkunits
    \/ UsageCreateDataJob
    \/ UsageAddLineage

SpecUsage == InitUsage /\ [][NextUsage]_vars

(***************************************************************************)
(* SpecAspects: one data flow and one data job of that flow; properties    *)
(* are set call by call and each aspect can be read at any time.           *)
(***************************************************************************)
PropertyNames == {"language", "owner"}

PropertyValues == {None, <<"o">>}

AspectFlows ==
    {SQLJob(DbName, pi, <<"f">>, Env, Source) : pi \in {None, <<>>, <<"p">>}}
    \cup {create_procedure_container(DbName, pi, <<"f">>, Env, Source) :
              pi \in {None, <<>>, <<"p">>}}

AspectEntities(flow) ==
    {StoredProcedure(db, schema, <<"a">>, flow, Source, None, None, None,
                     None, None, None, None) :
         db \in {DbName, <<"db2">>}, schema \in Schemas}
    \cup (IF flow.cls = "SQLJob"
          THEN {JobStep(<<"a">>, <<"x">>, flow, Source, None)} ELSE {})

InitAspects ==
    /\ \E flow \in AspectFlows :
        /\ flows = <<create_data_flow(flow, Source, None, <<>>, <<>>)>>
        /\ \E e \in AspectEntities(flow) :
               jobs = <<SQLDataJob(e, Source, None, None, None)>>
    /\ emitted = Idle
    /\ named = Idle
    /\ call = Idle
    /\ outcome = Idle
    /\ wu_in = Idle
    /\ workunits = <<>>
    /\ workers = <<>>
    /\ usage = Idle

JobAddProperty ==
    \E name \in PropertyNames, value \in PropertyValues :
        AddProperty(1, name, value)

FlowAddProperty ==
    \E name \in PropertyNames, value \in PropertyValues :
        /\ flows' = [flows EXCEPT ![1] = SQLDataFlow_add_property(@, name, value)]
        /\ emitted' =
               IF emitted.stage = "emitted" /\ emitted.shares = SharesFlow(1)
               THEN [emitted EXCEPT !.aspect.customProperties =
                        SQLDataFlow_add_property(flows[1], name,
                                                 value).flow_properties]
               ELSE emitted
        /\ UNCHANGED <<named, jobs, call, outcome, wu_in, workunits,
                       workers, usage>>

\* An aspect is read and handed over; shares names the property dict the
\* aspect holds by reference, if any.
Emit(entity, aspectName, aspect, shares) ==
    /\ emitted' = [stage |-> "emitted", entity |-> entity,
                   aspectName |-> aspectName, aspect |-> aspect,
                   shares |-> shares]
    /\ UNCHANGED <<named, jobs, call, outcome, wu_in, workunits, flows,
                   workers, usage>>

EmitJobInfo ==
    Emit(jobs[1], "dataJobInfo", SQLDataJob_as_datajob_info_aspect(jobs[1]),
         SQLDataJob_valued_properties_shares(jobs[1], 1))

EmitFlowInfo ==
    Emit(flows[1], "dataFlowInfo", SQLDataFlow_as_dataflow_info_aspect(flows[1]),
         SharesFlow(1))

EmitJobContainer ==
    Emit(jobs[1], "container", SQLDataJob_as_container_aspect(jobs[1]), NoShare)

EmitFlowContainer ==
    Emit(flows[1], "container", SQLDataFlow_as_container_aspect(flows[1]),
         NoShare)

EmitJobPlatformInstance ==
    Emit(jobs[1], "dataPlatformInstance",
         SQLDataJob_as_maybe_platform_instance_aspect(jobs[1]), NoShare)

EmitFlowPlatformInstance ==
    Emit(flows[1], "dataPlatformInstance",
         SQLDataFlow_as_maybe_platform_instance_aspect(flows[1]), NoShare)

NextAspects ==
    \/ JobAddProperty
    \/ FlowAddProperty
    \/ EmitJobInfo
    \/ EmitFlowInfo
    \/ EmitJobContainer
    \/ EmitFlowContainer
    \/ EmitJobPlatformInstance
    \/ EmitFlowPlatformInstance

SpecAspects == InitAspects /\ [][NextAspects]_vars

(***************************************************************************)
(* Properties.                                                             *)
(***************************************************************************)
NoDuplicates(l) == \A i, j \in DOMAIN l : i # j => l[i] # l[j]

IsSorted(l) == \A i \in DOMAIN l : i < Len(l) => str_le(l[i], l[i + 1])

NoComma(s) == \A i \in DOMAIN s : s[i] # ","

\* C1: whatever add_lineage_to_data_job calls populated a job, each list of
\* its input/output aspect holds every identifier of the job's list exactly
\* once, in sorted order.
C1_EmittedListsDedupSorted ==
    emitted.stage = "emitted" =>
        /\ SeqRange(emitted.aspect.inputDatasets) = SeqRange(emitted.job.incoming)
        /\ SeqRange(emitted.aspect.outputDatasets) = SeqRange(emitted.job.outgoing)
        /\ SeqRange(emitted.aspect.inputDatajobs) = SeqRange(emitted.job.input_jobs)
        /\ \A l \in {emitted.aspect.inputDatasets, emitted.aspect.outputDatasets,
                     emitted.aspect.inputDatajobs} :
               NoDuplicates(l) /\ IsSorted(l)

\* The five fields the claim names as a job's identity.
IdentityKey(job) ==
    <<job.entity.flow.source, formatted_name(job.entity.flow),
      formatted_name(job.entity), job.entity.flow.env,
      job.entity.flow.platform_instance>>

\* C2: two data jobs equal in (flow.orchestrator, flow.formatted_name,
\* entity.formatted_name, flow.cluster, flow.platform_instance) have the same
\* urn, whatever else differs between them.
C2_SameKeySameUrn ==
    \A i, j \in DOMAIN jobs :
        IdentityKey(jobs[i]) = IdentityKey(jobs[j])
            => SQLDataJob_urn(jobs[i]) = SQLDataJob_urn(jobs[j])

\* Two stored procedures equal in the identity fields, different in code,
\* timestamps, comment, owner, schema, lineage and property bag.
C2_Witness ==
    /\ Len(jobs) = 2
    /\ jobs[1].entity.cls = "StoredProcedure"
    /\ jobs[2].entity.cls = "StoredProcedure"
    /\ IdentityKey(jobs[1]) = IdentityKey(jobs[2])
    /\ jobs[1].entity.code # jobs[2].entity.code
    /\ jobs[1].entity.created # jobs[2].entity.created
    /\ jobs[1].entity.owner # jobs[2].entity.owner
    /\ jobs[1].description # jobs[2].description
    /\ jobs[1].entity.name = jobs[2].entity.name
    /\ jobs[1].entity.schema = jobs[2].entity.schema
    /\ jobs[1].incoming # jobs[2].incoming
    /\ jobs[1].job_properties # jobs[2].job_properties

\* Two distinct jobs of one run: stored procedures of one container that
\* differ in schema or name, or steps of one SQLJob that differ in step name.
DistinctJobsOfOneFlow(a, b) ==
    /\ a.entity.flow = b.entity.flow
    /\ a.entity.cls = b.entity.cls
    /\ IF a.entity.cls = "StoredProcedure"
       THEN a.entity.schema # b.entity.schema \/ a.entity.name # b.entity.name
       ELSE a.entity.job_name = b.entity.job_name
            /\ a.entity.step_name # b.entity.step_name

\* C3: two distinct jobs of one extraction run never get the same urn.
C3_DistinctJobsDistinctUrns ==
    \A i, j \in DOMAIN jobs :
        DistinctJobsOfOneFlow(jobs[i], jobs[j])
            => SQLDataJob_urn(jobs[i]) # SQLDataJob_urn(jobs[j])

\* The name a record's formatted_name is derived from.
NameOf(e) == IF e.cls = "JobStep" THEN e.job_name ELSE e.name

\* C4: formatted_name of SQLJob, SQLProceduresContainer, StoredProcedure and
\* JobStep has no comma and is the name with every comma turned into a
\* hyphen; no flow_id or job_id handed to URN construction has a comma.
C4_FormattedNameCommaFree ==
    named.stage = "made" =>
        LET o == named.obj
            f == named.formatted_name
        IN  /\ Len(f) = Len(NameOf(o))
            /\ \A i \in DOMAIN f :
                   f[i] = IF NameOf(o)[i] = "," THEN "-" ELSE NameOf(o)[i]
            /\ NoComma(f)
            /\ o.cls \in {"StoredProcedure", "JobStep"} =>
                   LET a == SQLDataJob_urn_args(
                                SQLDataJob(o, Source, None, None, None))
                   IN  NoComma(a.flow_id) /\ NoComma(a.job_id)
            /\ o.cls \in {"SQLJob", "SQLProceduresContainer"} =>
                   NoComma(SQLDataFlow_urn_args(SQLDataFlow(o, Source, None)).flow_id)

\* A procedures container whose name holds two commas has been built.
C4_Witness ==
    /\ named.stage = "made"
    /\ named.obj.cls = "SQLProceduresContainer"
    /\ named.name = <<"a", ",", ",">>
    /\ named.formatted_name = <<"a", "-", "-">>

(***************************************************************************)
(* Properties of parse_procedure_code and generate_procedure_lineage.      *)
(***************************************************************************)
FailureCount(ss) ==
    Cardinality({i \in DOMAIN ss : ~StatementFacts(ss[i]).parses})

\* The union of the statements' resolved READ sets, and of their WRITE sets.
ResolvedReads(ss, db, schema) ==
    UNION {{Qualify(r, db, schema) : r \in StatementFacts(ss[i]).reads} :
               i \in DOMAIN ss}

ResolvedWrites(ss, db, schema) ==
    UNION {{Qualify(w, db, schema) : w \in StatementFacts(ss[i]).writes} :
               i \in DOMAIN ss}

NotTemp(tables, is_temp_table) == {t \in tables : t.name \notin is_temp_table}

InputsOf(value) == IF value = NoAspect THEN {} ELSE value.inputDatasets

OutputsOf(value) == IF value = NoAspect THEN {} ELSE value.outputDatasets

Parsed == outcome.stage = "done" /\ outcome.op = "parse_procedure_code"

Generated == outcome.stage = "done" /\ outcome.op = "generate_procedure_lineage"

\* The lineage that the parseable statements of the call's procedure give.
ExpectedInputs ==
    NotTemp(ResolvedReads(call.statements, call.procedure.db,
                          call.procedure.schema), call.is_temp_table)

ExpectedOutputs ==
    NotTemp(ResolvedWrites(call.statements, call.procedure.db,
                           call.procedure.schema), call.is_temp_table)

\* C5: in strict mode every statement is submitted to the aggregator first;
\* then the call raises iff the failure count is non-zero, the error carries
\* the count and no lineage value is returned; with zero failures the lineage
\* is returned.
C5_StrictRaisesAfterAllStatements ==
    (Parsed /\ call.raise_) =>
        LET r == outcome.result
            k == FailureCount(call.statements)
        IN  /\ Len(r.aggregator.observed) = Len(call.statements)
            /\ \A i \in DOMAIN call.statements :
                   r.aggregator.observed[i].query = call.statements[i]
            /\ (r.kind = "raise") <=> (k # 0)
            /\ r.kind = "raise" =>
                   /\ r.error = FailedToParse(k)
                   /\ "value" \notin DOMAIN r
            /\ k = 0 =>
                   /\ r.kind = "return"
                   /\ InputsOf(r.value) = ExpectedInputs
                   /\ OutputsOf(r.value) = ExpectedOutputs

\* A strict call raised for two failures, the first of them followed by
\* statements that parse.
C5_Witness ==
    /\ Parsed
    /\ call.raise_
    /\ call.statements = <<"SELEC garbage", "SELECT * FROM t1",
                           "SELEC garbage", "INSERT INTO t1 SELECT * FROM t2">>
    /\ outcome.result.kind = "raise"
    /\ outcome.result.error = FailedToParse(2)

\* C6: in non-strict mode a call for a procedure with k failing statements
\* among n never raises and returns the lineage of the n-k parseable
\* statements together with a failure count of k.
C6_NonStrictReturnsLineageAndCount ==
    (Parsed /\ ~call.raise_ /\ FailureCount(call.statements) >= 1) =>
        LET r == outcome.result
        IN  /\ r.kind = "return"
            /\ InputsOf(r.value) = ExpectedInputs
            /\ OutputsOf(r.value) = ExpectedOutputs
            /\ "num_observed_queries_failed" \in DOMAIN r.value
            /\ r.value.num_observed_queries_failed
                   = FailureCount(call.statements)

PermuteSeq(ss, p) == [i \in DOMAIN ss |-> ss[p[i]]]

\* What parse_procedure_code gives for the call's statements in order p.
ResultInOrder(p) ==
    parse_procedure_code(SchemaResolver, call.procedure.db,
                         call.procedure.schema,
                         BodyOf(PermuteSeq(call.statements, p)),
                         call.is_temp_table, call.raise_)

SameReturn(r1, r2) ==
    /\ r1.kind = r2.kind
    /\ r1.kind = "return" =>
           /\ InputsOf(r1.value) = InputsOf(r2.value)
           /\ OutputsOf(r1.value) = OutputsOf(r2.value)

\* C7 as stated: the returned input and output sets are the unions of the
\* statements' resolved READ and WRITE sets, and every permutation of the
\* statements gives the same two sets.
C7_LineageIsUnionOfResolvedSets ==
    (Parsed /\ outcome.result.kind = "return") =>
        /\ InputsOf(outcome.result.value)
               = ResolvedReads(call.statements, call.procedure.db,
                               call.procedure.schema)
        /\ OutputsOf(outcome.result.value)
               = ResolvedWrites(call.statements, call.procedure.db,
                                call.procedure.schema)
        /\ \A p \in Permutations(DOMAIN call.statements) :
               SameReturn(ResultInOrder(p), outcome.result)

\* C7 amended: the returned input and output sets are the unions of the
\* statements' resolved READ and WRITE sets minus the tables is_temp_table
\* accepts, and every permutation of the statements gives the same two sets.
C7_LineageIsUnionMinusTemp ==
    (Parsed /\ outcome.result.kind = "return") =>
        /\ InputsOf(outcome.result.value) = ExpectedInputs
        /\ OutputsOf(outcome.result.value) = ExpectedOutputs
        /\ \A p \in Permutations(DOMAIN call.statements) :
               SameReturn(ResultInOrder(p), outcome.result)

\* A non-strict call returned lineage for four statements, one of them
\* unparseable, two of them touching a temporary table.
C7_Witness ==
    /\ Parsed
    /\ ~call.raise_
    /\ call.is_temp_table = {"tmp"}
    /\ call.statements = <<"SELECT * INTO tmp FROM t1", "SELEC garbage",
                           "INSERT INTO t2 SELECT * FROM tmp",
                           "INSERT INTO t1 SELECT * FROM t2">>
    /\ outcome.result.kind = "return"
    /\ Cardinality(InputsOf(outcome.result.value)) = 2
    /\ Cardinality(OutputsOf(outcome.result.value)) = 2

\* The datasets named by the lineage a call produced.
ProducedDatasets ==
    IF Parsed
    THEN IF outcome.result.kind = "return"
         THEN InputsOf(outcome.result.value) \cup OutputsOf(outcome.result.value)
         ELSE {}
    ELSE UNION {InputsOf(outcome.result.mcps[i].aspect)
                    \cup OutputsOf(outcome.result.mcps[i].aspect) :
                    i \in DOMAIN outcome.result.mcps}

\* C8: no table that is_temp_table accepts is in the input or output set
\* produced by parse_procedure_code or generate_procedure_lineage.
C8_NoTempTableInLineage ==
    outcome.stage = "done" =>
        \A d \in ProducedDatasets : d.name \notin call.is_temp_table

\* generate_procedure_lineage yielded lineage for a procedure that writes and
\* then reads a temporary table.
C8_Witness ==
    /\ Generated
    /\ call.is_temp_table = {"tmp"}
    /\ call.statements = <<"SELECT * INTO tmp FROM t1",
                           "INSERT INTO t2 SELECT * FROM tmp">>
    /\ Len(outcome.result.mcps) = 1
    /\ ProducedDatasets # {}

\* C9: a non-temporary table that one statement reads and a different
\* statement writes is in both the input set and the output set.
C9_ReadAndWrittenTableInBothSets ==
    (Parsed /\ outcome.result.kind = "return") =>
        \A i, j \in DOMAIN call.statements :
            i # j =>
                \A t \in NotTemp(
                             ResolvedReads(<<call.statements[i]>>,
                                           call.procedure.db,
                                           call.procedure.schema)
                             \cap ResolvedWrites(<<call.statements[j]>>,
                                                 call.procedure.db,
                                                 call.procedure.schema),
                             call.is_temp_table) :
                    /\ t \in InputsOf(outcome.result.value)
                    /\ t \in OutputsOf(outcome.result.value)

\* A call returned for a procedure whose first statement reads t1 and whose
\* second statement writes it.
C9_Witness ==
    /\ Parsed
    /\ call.statements = <<"SELECT * FROM t1", "INSERT INTO t1 SELECT * FROM t2">>
    /\ outcome.result.kind = "return"
    /\ Qualify(Ref("t1"), call.procedure.db, call.procedure.schema)
           \in InputsOf(outcome.result.value) \cap OutputsOf(outcome.result.value)

(***************************************************************************)
(* Properties of generate_stored_procedure_workunits.                      *)
(***************************************************************************)
Configured(platform_instance) ==
    platform_instance # None /\ Len(platform_instance) > 0

FlowAspectOrder(platform_instance) ==
    IF Configured(platform_instance)
    THEN <<"dataFlowInfo", "dataPlatformInstance", "container">>
    ELSE <<"dataFlowInfo", "container">>

JobAspectOrder(platform_instance) ==
    IF Configured(platform_instance)
    THEN <<"dataJobInfo", "dataPlatformInstance", "container",
           "dataJobInputOutput">>
    ELSE <<"dataJobInfo", "container", "dataJobInputOutput">>

\* C10: the flow's records come first, then the records of each of the N
\* procedures in input order; within an entity the order is info, platform
\* instance (only when configured), containment, then for jobs the
\* input/output aspect, one record per entity and aspect.
C10_WorkunitOrder ==
    wu_in.stage = "generated" =>
        LET fa == FlowAspectOrder(wu_in.platform_instance)
            ja == JobAspectOrder(wu_in.platform_instance)
            n == Len(wu_in.procedures)
            container == create_procedure_container(
                             wu_in.db_name, wu_in.platform_instance,
                             wu_in.container_name, wu_in.env,
                             wu_in.source_platform)
        IN  /\ Len(workunits) = Len(fa) + n * Len(ja)
            /\ \A k \in DOMAIN fa :
                   /\ workunits[k].mcp.entityType = "dataFlow"
                   /\ workunits[k].mcp.aspectName = fa[k]
                   /\ workunits[k].mcp.entityUrn
                          = SQLDataFlow_urn(SQLDataFlow(container,
                                wu_in.source_platform, None))
            /\ \A i \in DOMAIN wu_in.procedures :
                   \A k \in DOMAIN ja :
                       LET w == workunits[Len(fa) + (i - 1) * Len(ja) + k]
                           p == convert_base_stored_procedure(
                                    wu_in.procedures[i], wu_in.db_name,
                                    container, wu_in.source_platform)
                       IN  /\ w.mcp.entityType = "dataJob"
                           /\ w.mcp.aspectName = ja[k]
                           /\ w.mcp.entityUrn
                                  = SQLDataJob_urn(SQLDataJob(p,
                                        wu_in.source_platform, None, None, None))
                           /\ ja[k] = "dataJobInfo" =>
                                  w.mcp.aspect.name = StoredProcedure_full_name(p)
                           /\ ja[k] = "dataJobInputOutput" =>
                                  w.mcp.aspect = [inputDatasets |-> <<>>,
                                                  outputDatasets |-> <<>>,
                                                  inputDatajobs |-> <<>>]

\* Work units were generated for two different procedures with a platform
\* instance configured: three flow records, then four per procedure.
C10_Witness ==
    /\ wu_in.stage = "generated"
    /\ wu_in.platform_instance = <<"p">>
    /\ Len(wu_in.procedures) = 2
    /\ wu_in.procedures[1].name # wu_in.procedures[2].name
    /\ Len(workunits) = 11
    /\ workunits[4].mcp.aspectName = "dataJobInfo"
    /\ workunits[11].mcp.aspectName = "dataJobInputOutput"

(***************************************************************************)
(* Property bags.                                                          *)
(***************************************************************************)
NoNullValue(bag) == \A k \in DOMAIN bag : bag[k] # None

\* C11: every emitted property bag holds only non-null values: after any
\* sequence of add_property calls, neither the customProperties of a job's
\* info aspect nor those of a flow's info aspect map a key to None.
C11_PropertyBagsNonNull ==
    (emitted.stage = "emitted"
        /\ emitted.aspectName \in {"dataJobInfo", "dataFlowInfo"})
    => NoNullValue(emitted.aspect.customProperties)

\* The property bag of a job's info aspect at the moment it is read:
\* valued_properties drops the None entries.
JobPropertyBagNonNullWhenRead ==
    \A i \in DOMAIN jobs :
        NoNullValue(SQLDataJob_as_datajob_info_aspect(jobs[i]).customProperties)

\* The dataJobInfo records of the generated list, in order: one per procedure.
JobInfoRecords ==
    SelectSeq(workunits, LAMBDA w : w.mcp.aspectName = "dataJobInfo")

PropertyOf(base_proc, key) ==
    CASE key = "language" -> base_proc.language
      [] key = "return_type" -> base_proc.return_type
      [] key = "owner" -> base_proc.owner

\* C12: when language, return type or owner of a procedure is null, the key
\* is left out of the emitted property bag of the procedure's job; it is
\* never emitted with an empty-string value.
C12_NullPropertyOmitted ==
    wu_in.stage = "generated" =>
        /\ Len(JobInfoRecords) = Len(wu_in.procedures)
        /\ \A i \in DOMAIN wu_in.procedures :
               \A key \in {"language", "return_type", "owner"} :
                   PropertyOf(wu_in.procedures[i], key) = None =>
                       key \notin DOMAIN JobInfoRecords[i].mcp.aspect.customProperties

(***************************************************************************)
(* Idempotence of the graph assembly.                                      *)
(***************************************************************************)
\* The (entity identifier, aspect name, aspect value) records of a list.
Records(wus) ==
    [i \in DOMAIN wus |->
        <<wus[i].mcp.entityUrn, wus[i].mcp.aspectName, wus[i].mcp.aspect>>]

\* C13: two runs of generate_stored_procedure_workunits on equal inputs
\* yield identical sequences of (entity identifier, aspect name, aspect
\* value) records, in the same order: the list a call returns equals the
\* list the call before it returned.
C13_RerunYieldsSameRecords ==
    (wu_in.stage = "returned" /\ wu_in.run >= 2) =>
        Records(wu_in.returned) = Records(wu_in.previous)

\* Two calls have returned, for two procedures and platform instance "p":
\* eleven records each time, built from a second flow and second jobs.
C13_Witness ==
    /\ wu_in.stage = "returned"
    /\ wu_in.run = 2
    /\ Len(wu_in.procedures) = 2
    /\ wu_in.platform_instance = <<"p">>
    /\ Len(wu_in.returned) = 11
    /\ Len(wu_in.previous) = 11
    /\ Len(jobs) = 2

(***************************************************************************)
(* Containment and platform-instance aspects.                              *)
(***************************************************************************)
\* The flow an emitted entity belongs to: a job's flow, or the flow itself.
FlowOf(e) == IF e.type = "dataJob" THEN e.entity.flow ELSE e.entity

OwningDatabaseKey(flow) ==
    DatabaseKey(orchestrator(flow), flow.platform_instance, flow.env, flow.db)

OwningSchemaKey(flow, schema) ==
    SchemaKey(schema, orchestrator(flow), flow.platform_instance, flow.env,
              flow.db)

\* C14: the containment aspect of a job points at the schema container
\* (the flow's database plus entity.schema) for a StoredProcedure and at the
\* database container for a JobStep; that of a flow points at the database
\* container; the key is always built from the flow's orchestrator, platform
\* instance, env and db.
C14_ContainerAspectTarget ==
    (emitted.stage = "emitted" /\ emitted.aspectName = "container") =>
        LET e == emitted.entity
            flow == FlowOf(e)
        IN  emitted.aspect.container =
                ContainerKey_as_urn(
                    IF e.type = "dataJob" /\ e.entity.cls = "StoredProcedure"
                    THEN OwningSchemaKey(flow, e.entity.schema)
                    ELSE OwningDatabaseKey(flow))

\* The containment aspect was read for a stored procedure whose own db is
\* not its flow's db, with a platform instance configured.
C14_Witness ==
    /\ emitted.stage = "emitted"
    /\ emitted.aspectName = "container"
    /\ emitted.entity.type = "dataJob"
    /\ emitted.entity.entity.cls = "StoredProcedure"
    /\ emitted.entity.entity.db # emitted.entity.entity.flow.db
    /\ emitted.entity.entity.flow.platform_instance = <<"p">>
    /\ emitted.aspect.container.guid.cls = "SchemaKey"

ExpectedPlatformInstance(flow) ==
    IF Configured(flow.platform_instance)
    THEN [platform |-> make_data_platform_urn(orchestrator(flow)),
          instance |-> make_dataplatform_instance_urn(
                           orchestrator(flow), flow.platform_instance)]
    ELSE NoPlatformInstance

PlatformInstanceRecords ==
    SelectSeq(workunits, LAMBDA w : w.mcp.aspectName = "dataPlatformInstance")

\* C15: a platform-instance aspect exists for a flow or a job iff a platform
\* instance string is configured on the flow (absent for None and for the
\* empty string), it names the flow's orchestrator platform and that
\* instance, and generate_stored_procedure_workunits emits a
\* dataPlatformInstance record for the flow and for each job exactly then.
C15_PlatformInstanceIffConfigured ==
    /\ \A flow \in AspectFlows :
           /\ SQLDataFlow_as_maybe_platform_instance_aspect(
                  SQLDataFlow(flow, Source, None))
                  = ExpectedPlatformInstance(flow)
           /\ \A e \in AspectEntities(flow) :
                  SQLDataJob_as_maybe_platform_instance_aspect(
                      SQLDataJob(e, Source, None, None, None))
                      = ExpectedPlatformInstance(flow)
    /\ wu_in.stage = "generated" =>
           LET container == create_procedure_container(
                                wu_in.db_name, wu_in.platform_instance,
                                wu_in.container_name, wu_in.env,
                                wu_in.source_platform)
               recs == PlatformInstanceRecords
           IN  IF Configured(wu_in.platform_instance)
               THEN /\ Len(recs) = 1 + Len(wu_in.procedures)
                    /\ recs[1].mcp.entityType = "dataFlow"
                    /\ \A i \in DOMAIN recs :
                           /\ i > 1 => recs[i].mcp.entityType = "dataJob"
                           /\ recs[i].mcp.aspect
                                  = ExpectedPlatformInstance(container)
               ELSE recs = <<>>

\* Work units were generated for one procedure with platform instance "p":
\* the flow and the job each have a dataPlatformInstance record.
C15_Witness ==
    /\ wu_in.stage = "generated"
    /\ wu_in.platform_instance = <<"p">>
    /\ Len(wu_in.procedures) = 1
    /\ Len(PlatformInstanceRecords) = 2
    /\ PlatformInstanceRecords[2].mcp.entityType = "dataJob"

(***************************************************************************)
(* Interleaved calls of parse_procedure_code.                              *)
(***************************************************************************)
\* What the call of worker w yields when it is the only call.
Alone(w) ==
    parse_procedure_code(workers[w].schema_resolver, workers[w].default_db,
                         workers[w].default_schema, workers[w].code,
                         workers[w].is_temp_table, workers[w].raise_)

LineageTables(result) ==
    IF result.kind = "return" /\ result.value # NoAspect
    THEN result.value.inputDatasets \cup result.value.outputDatasets
    ELSE {}

\* C16: each call has its own aggregator: in every interleaving of the calls
\* for procedures A and B, the failure count and lineage observed for a
\* procedure equal those of its call made alone; failures of A never make a
\* strict call for B raise, and A's tables never appear in B's lineage.
C16_AggregatorPrivateToCall ==
    \A w \in DOMAIN workers :
        workers[w].pc = "done" =>
            /\ workers[w].result = Alone(w)
            /\ workers[w].result.aggregator.num_observed_queries_failed
                   = FailureCount(split_statements(workers[w].code))
            /\ FailureCount(split_statements(workers[w].code)) = 0 =>
                   workers[w].result.kind = "return"
            /\ \A t \in LineageTables(workers[w].result) :
                   t.schema = workers[w].default_schema

\* B's strict call returned lineage while A's call, still in its loop, had
\* already counted a failed statement.
C16_Witness ==
    /\ Len(workers) = 2
    /\ workers[1].pc = "loop"
    /\ workers[1].aggregator.num_observed_queries_failed > 0
    /\ workers[2].pc = "done"
    /\ workers[2].raise_
    /\ workers[2].result.kind = "return"
    /\ workers[2].result.value # NoAspect

\* The aggregator of worker w's call, during the loop and after it.
CallAggregator(w) ==
    IF workers[w].pc = "done" THEN workers[w].result.aggregator
    ELSE workers[w].aggregator

\* C18: every statement of a procedure, in source order, is submitted to the
\* resolver with the procedure's own db and schema as default database and
\* default schema; a USE <database> statement before it changes nothing.
C18_DefaultsFixedAcrossStatements ==
    \A w \in DOMAIN workers :
        workers[w].pc \in {"loop", "done"} =>
            LET p == workers[w].procedure
                all == split_statements(p.code)
                seen == CallAggregator(w).observed
            IN  /\ Len(seen) <= Len(all)
                /\ workers[w].pc = "done" => Len(seen) = Len(all)
                /\ \A i \in DOMAIN seen :
                       seen[i] = ObservedQuery(p.db, p.schema, all[i])
                /\ workers[w].pc = "done" =>
                       \A t \in LineageTables(workers[w].result) :
                           t.db = p.db /\ t.schema = p.schema

\* A call is done whose procedure has a USE statement followed by an INSERT:
\* the INSERT was submitted with the procedure's db, not the USE's.
C18_Witness ==
    /\ Len(workers) = 2
    /\ workers[1].pc = "done"
    /\ split_statements(workers[1].procedure.code)
           = <<"USE db2", "INSERT INTO t1 SELECT * FROM t2">>
    /\ workers[1].result.aggregator.observed[2].default_db = DbName
    /\ LineageTables(workers[1].result) # {}

(***************************************************************************)
(* generate_procedure_lineage.                                             *)
(***************************************************************************)
\* C19: generate_procedure_lineage yields no record when the procedure's
\* code is null or empty (nothing is split or resolved) or when parsing
\* recovers no lineage; otherwise it yields exactly one record, for the
\* procedure_job_urn argument, carrying the parsed input/output lineage.
C19_ZeroOrOneLineageRecord ==
    Generated =>
        LET r == outcome.result
            p == call.procedure
            urn == SQLDataJob_urn(SQLDataJob(p, Source, None, None, None))
        IN  IF ~Truthy(p.code)
            THEN r.kind = "end" /\ r.mcps = <<>> /\ r.parse = NotCalled
            ELSE /\ r.parse # NotCalled
                 /\ Len(r.parse.aggregator.observed) = Len(call.statements)
                 /\ IF r.kind = "raise"
                       \/ (ExpectedInputs = {} /\ ExpectedOutputs = {})
                    THEN r.mcps = <<>>
                    ELSE /\ Len(r.mcps) = 1
                         /\ r.mcps[1].entityUrn = urn
                         /\ r.mcps[1].aspect = r.parse.value
                         /\ InputsOf(r.mcps[1].aspect) = ExpectedInputs
                         /\ OutputsOf(r.mcps[1].aspect) = ExpectedOutputs

\* One record was yielded in non-strict mode for a body with a statement
\* that fails and one that gives lineage.
C19_Witness ==
    /\ Generated
    /\ ~call.raise_
    /\ call.statements = <<"SELEC garbage", "INSERT INTO t1 SELECT * FROM t2">>
    /\ Len(outcome.result.mcps) = 1
    /\ outcome.result.mcps[1].entityUrn
           = SQLDataJob_urn(SQLDataJob(call.procedure, Source, None, None, None))

(***************************************************************************)
(* Lineage and emission.                                                   *)
(***************************************************************************)
\* The dataJobInputOutput records handed over for the entity of a data job.
EmittedInputOutput(job) ==
    SelectSeq(workunits,
              LAMBDA w : /\ w.mcp.entityUrn = SQLDataJob_urn(job)
                         /\ w.mcp.aspectName = "dataJobInputOutput")

\* C17: a job's lineage is populated after the job is created and before
\* its input/output aspect is handed to the emitter, and nothing changes
\* after emission: the dataJobInputOutput record emitted for a job equals
\* the job's lineage from then on, so no add_lineage_to_data_job call on the
\* entity follows the emission of its records.
C17_EmittedLineageIsFinal ==
    \A i \in DOMAIN jobs :
        \A k \in DOMAIN EmittedInputOutput(jobs[i]) :
            EmittedInputOutput(jobs[i])[k].mcp.aspect
                = SQLDataJob_as_datajob_input_output_aspect(jobs[i])

====
